---- MODULE Spec2Model ----
(***************************************************************************)
(* The FlexiMart ETL pipeline (part1-database-etl).  The repository holds  *)
(* two versions of the pipeline script:                                    *)
(*   "old" : etl_pipeline_old.py  (main(), forward fill, ON DUPLICATE KEY) *)
(*   "new" : etl_pipeline.py      (module level, median/'Unknown' fill,    *)
(*                                 plain INSERT)                           *)
(* A run executes one of the two scripts; `variant` says which.            *)
(*                                                                         *)
(* A string is a tuple of tokens (characters, or for dates the groups      *)
(* between the separators).  A table is a sequence of rows, a row a record *)
(* from column name to cell.  Cells of numeric columns are integers.       *)
(***************************************************************************)
EXTENDS Integers, Sequences, FiniteSets, TLC

VARIABLES
    variant,     \* which script runs: "old" or "new"
    prior,       \* TRUE when an earlier run left rows in the store and a report file
    files,       \* [Datasets -> BOOLEAN]: the input file exists
    ds,          \* the dataset the script is working on
    pc,          \* the next statement of the script
    err,         \* "none" while running, else the exception that ended the run
    raw,         \* the table as read by read_raw_data (the argument df)
    clean,       \* the table returned by find_treat_missing_val
    df,          \* the working dataframe (cust_df / prod_df / sales_df ...)
    report,      \* old: the local `report` not yet appended (<<>> or <<r>>)
    reportOf,    \* history: the report find_treat_missing_val made per dataset
    dq_reports,  \* the accumulated report list
    store,       \* the destination tables: table name -> set of committed rows
    commits,     \* history: the tables committed by this run, in order
    reportFile,  \* content of data_quality_report.txt (<<>> = absent)
    reportWrites \* history: how often this run opened the report file for writing

vars == <<variant, prior, files, ds, pc, err, raw, clean, df, report, reportOf,
          dq_reports, store, commits, reportFile, reportWrites>>

\* Longest input table considered.
MaxRows == 2

-----------------------------------------------------------------------------
(* Cells *)

\* pandas' missing value in an object column (NaN / None / NaT).
NA == <<"<NA>">>

\* pandas' missing value in a numeric column.
NaN == -1

\* The fill value of etl_pipeline.py and the sentinel the sales filter drops.
UNKNOWN == <<"U","n","k","n","o","w","n">>

Digits == {"0","1","2","3","4","5","6","7","8","9"}

NumericCols == {"price", "quantity", "unit_price", "total_amount"}

\* df.columns.str.contains('date', case=False)
DateNamed == {"registration_date", "transaction_date", "order_date"}

IsNa(c, v) == IF c \in NumericCols THEN v = NaN ELSE v = NA

Range(s) == {s[i] : i \in 1..Len(s)}

-----------------------------------------------------------------------------
(* Duplicates, missing values *)

\* df.duplicated(): row i equals an earlier row in all columns (NaN equals NaN).
Duplicated(t, i) == \E j \in 1..(i-1) : t[j] = t[i]

DuplicatedSum(t) == Cardinality({i \in 1..Len(t) : Duplicated(t, i)})

\* df.drop_duplicates(): first occurrences, in order.
RECURSIVE DropDuplicates(_)
DropDuplicates(t) ==
    IF t = <<>> THEN <<>>
    ELSE LET front == SubSeq(t, 1, Len(t) - 1)
             last  == t[Len(t)]
         IN  IF last \in Range(front) THEN DropDuplicates(front)
             ELSE Append(DropDuplicates(front), last)

\* df.drop_duplicates(subset=c, keep='first')
RECURSIVE DropDuplicatesSubset(_, _)
DropDuplicatesSubset(t, c) ==
    IF t = <<>> THEN <<>>
    ELSE LET front == SubSeq(t, 1, Len(t) - 1)
             last  == t[Len(t)]
         IN  IF \E i \in 1..Len(front) : front[i][c] = last[c]
             THEN DropDuplicatesSubset(front, c)
             ELSE Append(DropDuplicatesSubset(front, c), last)

\* df.isna().sum()[c]
NaCount(t, c) == Cardinality({i \in 1..Len(t) : IsNa(c, t[i][c])})

\* The "col: cnt" entries of the columns with missing values, in column order.
RECURSIVE NullEntries(_, _)
NullEntries(t, cols) ==
    IF cols = <<>> THEN <<>>
    ELSE LET c == Head(cols)
         IN  (IF NaCount(t, c) > 0 THEN << <<c, NaCount(t, c)>> >> ELSE <<>>)
             \o NullEntries(t, Tail(cols))

\* ", ".join(...) if any else the marker ("None" old, "No Nulls" new)
NullSummary(t, cols, marker) ==
    IF NullEntries(t, cols) = <<>>
    THEN [marker |-> marker, entries |-> <<>>]
    ELSE [marker |-> "", entries |-> NullEntries(t, cols)]

\* df.ffill(): every column carries its last non-missing value forward.
RECURSIVE Ffill(_, _)
Ffill(t, cols) ==
    IF Len(t) <= 1 THEN t
    ELSE LET front == Ffill(SubSeq(t, 1, Len(t) - 1), cols)
             prev  == front[Len(front)]
             last  == t[Len(t)]
         IN  Append(front,
                    [c \in DOMAIN last |->
                        IF IsNa(c, last[c]) THEN prev[c] ELSE last[c]])

\* Series.median() of the non-missing values (NaN when there is none).  The
\* numeric inputs are all even, so the mean of the two middle values is exact.
Median(t, c) ==
    LET idx == {i \in 1..Len(t) : ~IsNa(c, t[i][c])}
        n   == Cardinality(idx)
        \* the k-th smallest value, counting repetitions
        Kth(k) == CHOOSE v \in {t[i][c] : i \in idx} :
                    /\ Cardinality({i \in idx : t[i][c] < v}) < k
                    /\ Cardinality({i \in idx : t[i][c] <= v}) >= k
    IN  IF n = 0 THEN NaN
        ELSE IF n % 2 = 1 THEN Kth((n + 1) \div 2)
        ELSE (Kth(n \div 2) + Kth(n \div 2 + 1)) \div 2

\* etl_pipeline.py: for each column with missing values, numeric -> median,
\* anything else -> 'Unknown'.
FillNa(t, cols) ==
    [i \in 1..Len(t) |->
        [c \in DOMAIN t[i] |->
            IF ~IsNa(c, t[i][c]) THEN t[i][c]
            ELSE IF c \in NumericCols THEN Median(t, c)
            ELSE UNKNOWN]]

-----------------------------------------------------------------------------
(* Dates *)

YearTok  == {"2023", "2024"}
MonthTok == {"01","02","03","04","05","06","07","08","09","10","11","12"}
DayTok   == MonthTok \cup {"13","14","15","16","17","18","19","20","21","22",
                           "23","24","25","26","27","28","29","30","31"}

IsoDate(y, m, d) == <<y, "-", m, "-", d>>

\* pd.to_datetime(v, format='mixed', errors='coerce', dayfirst=...) followed by
\* .dt.date / .dt.strftime("%Y-%m-%d"): the calendar date, or missing.
ParseDate(v, dayfirst) ==
    IF Len(v) # 5 THEN NA
    ELSE IF v[2] = "-" /\ v[4] = "-"
         THEN IF v[1] \in YearTok /\ v[3] \in MonthTok /\ v[5] \in DayTok
              THEN IsoDate(v[1], v[3], v[5]) ELSE NA
    ELSE IF v[2] = "/" /\ v[4] = "/" /\ v[5] \in YearTok
         THEN LET a == v[1]
                  b == v[3]
                  dm == a \in DayTok /\ b \in MonthTok   \* a is the day
                  md == a \in MonthTok /\ b \in DayTok   \* a is the month
              IN  IF dayfirst
                  THEN IF dm THEN IsoDate(v[5], b, a)
                       ELSE IF md THEN IsoDate(v[5], a, b) ELSE NA
                  ELSE IF md THEN IsoDate(v[5], a, b)
                       ELSE IF dm THEN IsoDate(v[5], b, a) ELSE NA
    ELSE NA

\* The date-named columns of a table, in column order.
DateCols(cols) == SelectSeq(cols, LAMBDA c : c \in DateNamed)

\* clean_date_columns (old): every date-named column is parsed day-first.
clean_date_columns(t, cols) ==
    [i \in 1..Len(t) |->
        [c \in DOMAIN t[i] |->
            IF c \in Range(DateCols(cols)) THEN ParseDate(t[i][c], TRUE)
            ELSE t[i][c]]]

\* etl_pipeline.py: only the first date-named column is parsed, month-first.
HandleDateColumn(t, cols) ==
    IF DateCols(cols) = <<>> THEN t
    ELSE [i \in 1..Len(t) |->
            [c \in DOMAIN t[i] |->
                IF c = DateCols(cols)[1] THEN ParseDate(t[i][c], FALSE)
                ELSE t[i][c]]]

-----------------------------------------------------------------------------
(* Field standardisation *)

\* .astype(str): a missing value prints as "nan".
AsStr(v) == IF v = NA THEN <<"n","a","n">> ELSE v

\* .astype(str).str.replace(r'\D+', '', regex=True): the digits, in order.
CanonId(v) == SelectSeq(AsStr(v), LAMBDA ch : ch \in Digits)

PhoneSeparators == {"+", "-", " "}

\* phonenumbers.parse(str(x), "IN") raises NumberParseException unless the text
\* is digits and separators with at least two digits.
PhoneParses(v) ==
    /\ \A i \in 1..Len(v) : v[i] \in Digits \cup PhoneSeparators
    /\ Len(SelectSeq(v, LAMBDA ch : ch \in Digits)) >= 2

\* format_number(..., E164): "+", the country code (91 unless the text gave
\* one with a leading "+"), the national number without its trunk prefix 0.
FormatE164(v) ==
    LET digits == SelectSeq(v, LAMBDA ch : ch \in Digits)
    IN  IF v[1] = "+" THEN <<"+">> \o digits
        ELSE IF digits[1] = "0" THEN <<"+","9","1">> \o Tail(digits)
        ELSE <<"+","9","1">> \o digits

\* the lambda applied to the phone column: None for a missing value
PhoneCell(v) == IF v = NA THEN NA ELSE FormatE164(v)

LowerOf(ch) ==
    CASE ch = "T" -> "t" [] ch = "V" -> "v" [] ch = "U" -> "u" [] ch = "N" -> "n"
      [] ch = "K" -> "k" [] ch = "O" -> "o" [] ch = "W" -> "w" [] OTHER -> ch

UpperOf(ch) ==
    CASE ch = "t" -> "T" [] ch = "v" -> "V" [] ch = "u" -> "U" [] ch = "n" -> "N"
      [] ch = "k" -> "K" [] ch = "o" -> "O" [] ch = "w" -> "W" [] OTHER -> ch

IsLetter(ch) == LowerOf(ch) # ch \/ UpperOf(ch) # ch

\* Series.str.title(): a letter that follows a letter is lowered, any other
\* letter is raised; a missing value stays missing.
Title(v) ==
    IF v = NA THEN NA
    ELSE [i \in 1..Len(v) |->
            IF i > 1 /\ IsLetter(v[i-1]) THEN LowerOf(v[i]) ELSE UpperOf(v[i])]

-----------------------------------------------------------------------------
(* Datasets *)

Datasets == {"customers", "products", "sales"}

Cols(d) ==
    CASE d = "customers" -> <<"customer_id", "phone", "registration_date">>
      [] d = "products"  -> <<"product_id", "category", "price">>
      [] d = "sales"     -> <<"transaction_id", "customer_id", "product_id",
                              "quantity", "unit_price", "transaction_date",
                              "status">>

\* the dataset_name argument of main()'s three calls
DatasetName(d) ==
    CASE d = "customers" -> "Customers"
      [] d = "products"  -> "Products"
      [] d = "sales"     -> "Sales"

-----------------------------------------------------------------------------
(* find_treat_missing_val *)

\* etl_pipeline_old.py: count, drop duplicates, forward fill.
FindTreatMissingValOld(t, cols, name) ==
    LET out == Ffill(DropDuplicates(t), cols)
    IN  [df     |-> out,
         report |-> [DatasetName   |-> name,
                     RecordCount   |-> Len(t),
                     DuplicateRows |-> DuplicatedSum(t),
                     NullSummary   |-> NullSummary(t, cols, "None"),
                     InsertCount   |-> Len(out)]]

\* etl_pipeline.py: fill, rewrite the date column, then count and drop
\* duplicates on the table so changed.
FindTreatMissingValNew(t, cols) ==
    LET filled    == FillNa(t, cols)
        dated     == HandleDateColumn(filled, cols)
        transform == DropDuplicates(dated)
    IN  [df     |-> transform,
         report |-> [RecordCount   |-> Len(dated),
                     DuplicateRows |-> DuplicatedSum(dated),
                     NullCount     |-> NullSummary(t, cols, "No Nulls"),
                     InsertCount   |-> Len(transform)]]

find_treat_missing_val(v, t, d) ==
    IF v = "old" THEN FindTreatMissingValOld(t, Cols(d), DatasetName(d))
    ELSE FindTreatMissingValNew(t, Cols(d))

-----------------------------------------------------------------------------
(* Sales reshaping *)

\* Faulty variant of HasUnknown: only the status column is compared with 'Unknown'.
HasUnknown_StatusOnly(r) == r.status = UNKNOWN

\* df.eq('Unknown').any(axis=1): some cell of the row is the text 'Unknown'
\* (a number never equals it).
HasUnknown(r) == \E c \in DOMAIN r : c \notin NumericCols /\ r[c] = UNKNOWN

\* float multiplication: NaN if either operand is
Mul(a, b) == IF a = NaN \/ b = NaN THEN NaN ELSE a * b

\* the boolean-mask filter, total_amount, the three identifier columns and the
\* two renames
ReshapeRow(r) ==
    [order_id     |-> CanonId(r.transaction_id),
     customer_id  |-> CanonId(r.customer_id),
     product_id   |-> CanonId(r.product_id),
     quantity     |-> r.quantity,
     unit_price   |-> r.unit_price,
     order_date   |-> r.transaction_date,
     status       |-> r.status,
     total_amount |-> Mul(r.quantity, r.unit_price)]

ReshapedCols == <<"order_id", "customer_id", "product_id", "quantity",
                  "unit_price", "order_date", "status", "total_amount">>

ReshapeSales(v, t) ==
    LET kept     == SelectSeq(t, LAMBDA r : ~HasUnknown(r))
        reshaped == [i \in 1..Len(kept) |-> ReshapeRow(kept[i])]
    IN  IF v = "old" THEN clean_date_columns(reshaped, ReshapedCols)
        ELSE reshaped

\* sales_df[["order_id","customer_id","order_date","total_amount","status"]]
OrdersDf(t) ==
    [i \in 1..Len(t) |->
        [order_id     |-> t[i].order_id,
         customer_id  |-> t[i].customer_id,
         order_date   |-> t[i].order_date,
         total_amount |-> t[i].total_amount,
         status       |-> t[i].status]]

\* sales_df[["product_id","order_id","quantity","unit_price"]]
OrderItemsDf(t) ==
    [i \in 1..Len(t) |->
        [product_id |-> t[i].product_id,
         order_id   |-> t[i].order_id,
         quantity   |-> t[i].quantity,
         unit_price |-> t[i].unit_price]]

\* customers: phone, customer_id, then the subset de-duplication (new) or the
\* date columns (old)
StandardizeCustomers(v, t) ==
    LET done == [i \in 1..Len(t) |->
                    [t[i] EXCEPT !.phone = PhoneCell(@),
                                 !.customer_id = CanonId(@)]]
    IN  IF v = "old" THEN clean_date_columns(done, Cols("customers"))
        ELSE DropDuplicatesSubset(done, "customer_id")

\* products: product_id and category
StandardizeProducts(t) ==
    [i \in 1..Len(t) |->
        [t[i] EXCEPT !.product_id = CanonId(@), !.category = Title(@)]]

-----------------------------------------------------------------------------
(* Loader *)

Tables == {"customers", "products", "orders", "order_items"}

\* The unique key of each destination table.
KeyCols(tb) ==
    CASE tb = "customers"   -> {"customer_id"}
      [] tb = "products"    -> {"product_id"}
      [] tb = "orders"      -> {"order_id"}
      [] tb = "order_items" -> {"order_id", "product_id"}

KeyOf(tb, r) == [c \in KeyCols(tb) |-> r[c]]

\* INSERT ... ON DUPLICATE KEY UPDATE c=VALUES(c) for every column, row by row
RECURSIVE Upsert(_, _, _)
Upsert(tb, rows, batch) ==
    IF batch = <<>> THEN rows
    ELSE LET r == Head(batch)
         IN  Upsert(tb,
                    {x \in rows : KeyOf(tb, x) # KeyOf(tb, r)} \cup {r},
                    Tail(batch))

\* a plain INSERT meets a key that is already there (in the table or earlier
\* in the batch)
KeyConflict(tb, rows, batch) ==
    \E i \in 1..Len(batch) :
        \/ \E x \in rows : KeyOf(tb, x) = KeyOf(tb, batch[i])
        \/ \E j \in 1..(i-1) : KeyOf(tb, batch[j]) = KeyOf(tb, batch[i])

\* the rows of the table after a committed executemany
Loaded(v, tb, rows, batch) ==
    IF v = "old" THEN Upsert(tb, rows, batch) ELSE rows \cup Range(batch)

\* Faulty variant of LoadTarget: the two sales uploads are called in the other order.
LoadTarget_ItemsFirst(d, p) ==
    CASE p = "load" /\ d = "customers" -> "customers"
      [] p = "load" /\ d = "products"  -> "products"
      [] p = "load_orders"             -> "order_items"
      [] p = "load_items"              -> "orders"

\* the statement of the script at pc loads this table
LoadTarget(d, p) ==
    CASE p = "load" /\ d = "customers" -> "customers"
      [] p = "load" /\ d = "products"  -> "products"
      [] p = "load_orders"             -> "orders"
      [] p = "load_items"              -> "order_items"

\* the dataframe handed to upload_data_db
Batch(tb, t) ==
    CASE tb = "orders"      -> OrdersDf(t)
      [] tb = "order_items" -> OrderItemsDf(t)
      [] OTHER              -> t

-----------------------------------------------------------------------------
(* Report writer *)

\* One block of the report file per report, numbered from 1.  The heading
\* lines (title, rule, time stamp) are the same for every write and left out.
ReportBlocks(v, reports) ==
    [i \in 1..Len(reports) |->
        [Dataset   |-> i,
         Processed |-> reports[i].RecordCount,
         Removed   |-> reports[i].DuplicateRows,
         Handled   |-> IF v = "old" THEN reports[i].NullSummary
                       ELSE reports[i].NullCount,
         Loaded    |-> reports[i].InsertCount]]

-----------------------------------------------------------------------------
(* Input files and the environment before the run *)

Order == <<"customers", "products", "sales">>

Pos(d) == CHOOSE i \in 1..Len(Order) : Order[i] = d

Shipped == <<"S","h","i","p","p","e","d">>

\* Rows a raw file may hold: identifiers that differ only in punctuation,
\* missing cells, a phone that does not parse, dates in both layouts and one
\* that is no date, a status that is literally 'Unknown'.
CustomerRows ==
    { [customer_id |-> <<"C","1">>, phone |-> <<"9","8">>,
       registration_date |-> <<"15","/","03","/","2023">>],
      [customer_id |-> <<"C","-","1">>, phone |-> NA,
       registration_date |-> <<"not","a","date">>],
      [customer_id |-> <<"C","2">>, phone |-> <<"x">>,
       registration_date |-> <<"2023","-","03","-","15">>] }

ProductRows ==
    { [product_id |-> <<"P","1">>, category |-> <<"t","v">>, price |-> 2],
      [product_id |-> <<"P","-","1">>, category |-> <<"T","V">>, price |-> 4],
      [product_id |-> <<"P","1">>, category |-> <<"t","v">>, price |-> NaN] }

SalesRows ==
    { [transaction_id |-> <<"T","1">>, customer_id |-> <<"C","1">>,
       product_id |-> <<"P","1">>, quantity |-> 2, unit_price |-> 4,
       transaction_date |-> <<"15","/","03","/","2023">>, status |-> Shipped],
      [transaction_id |-> <<"T","2">>, customer_id |-> <<"C","2">>,
       product_id |-> <<"P","2">>, quantity |-> 4, unit_price |-> 2,
       transaction_date |-> <<"not","a","date">>, status |-> UNKNOWN],
      [transaction_id |-> <<"T","-","1">>, customer_id |-> NA,
       product_id |-> <<"P","1">>, quantity |-> NaN, unit_price |-> 4,
       transaction_date |-> NA, status |-> Shipped] }

RowsOf(d) ==
    CASE d = "customers" -> CustomerRows
      [] d = "products"  -> ProductRows
      [] d = "sales"     -> SalesRows

\* every table of at most MaxRows rows
TablesOver(rows) == UNION {[1..n -> rows] : n \in 0..MaxRows}

\* What an earlier run left behind: one row per table, and a report file.
SeededStore ==
    [customers   |-> {[customer_id |-> <<"1">>, phone |-> NA,
                       registration_date |-> NA]},
     products    |-> {[product_id |-> <<"7">>, category |-> <<"T","v">>,
                       price |-> 2]},
     orders      |-> {[order_id |-> <<"1">>, customer_id |-> <<"1">>,
                       order_date |-> NA, total_amount |-> 2,
                       status |-> Shipped]},
     order_items |-> {[product_id |-> <<"7">>, order_id |-> <<"1">>,
                       quantity |-> 2, unit_price |-> 2]}]

EmptyStore == [tb \in Tables |-> {}]

InitStore(p) == IF p THEN SeededStore ELSE EmptyStore

StaleReport ==
    << [Dataset |-> 1, Processed |-> 0, Removed |-> 0,
        Handled |-> [marker |-> "None", entries |-> <<>>], Loaded |-> 0] >>

InitReportFile(p) == IF p THEN StaleReport ELSE <<>>

Init ==
    /\ variant \in {"old", "new"}
    /\ prior \in BOOLEAN
    /\ files \in [Datasets -> BOOLEAN]
    /\ ds = "customers"
    /\ pc = "read"
    /\ err = "none"
    /\ raw = <<>>
    /\ clean = <<>>
    /\ df = <<>>
    /\ report = <<>>
    /\ reportOf = [d \in Datasets |-> <<>>]
    /\ dq_reports = <<>>
    /\ store = InitStore(prior)
    /\ commits = <<>>
    /\ reportFile = InitReportFile(prior)
    /\ reportWrites = 0

-----------------------------------------------------------------------------
(* The script, statement by statement *)

\* an uncaught exception ends the run where it is
Raise(e) ==
    /\ err' = e
    /\ UNCHANGED <<variant, prior, files, ds, pc, raw, clean, df, report,
                   reportOf, dq_reports, store, commits, reportFile,
                   reportWrites>>

\* Faulty variant of ReadRawData: an absent file is read as an empty table instead of
\* raising.
ReadRawData_NoExistsCheck ==
    /\ pc = "read" /\ err = "none"
    /\ \/ files[ds] /\ Raise("ParserError")
       \/ \E t \in (IF files[ds] THEN TablesOver(RowsOf(ds)) ELSE {<<>>}) :
            /\ raw' = t
            /\ df' = t
            /\ clean' = <<>>
            /\ pc' = "clean"
            /\ UNCHANGED <<variant, prior, files, ds, err, report, reportOf,
                           dq_reports, store, commits, reportFile,
                           reportWrites>>

\* read_raw_data: FileNotFoundError when the file is absent, a parser error
\* when it cannot be tokenised, else the table.
ReadRawData ==
    /\ pc = "read" /\ err = "none"
    /\ IF ~files[ds] THEN Raise("FileNotFoundError")
       ELSE \/ Raise("ParserError")
            \/ \E t \in TablesOver(RowsOf(ds)) :
                 /\ raw' = t
                 /\ df' = t
                 /\ clean' = <<>>
                 /\ pc' = "clean"
                 /\ UNCHANGED <<variant, prior, files, ds, err, report,
                                reportOf, dq_reports, store, commits,
                                reportFile, reportWrites>>

\* find_treat_missing_val; etl_pipeline.py appends the report to the global
\* list inside the call, main() of the old script keeps it in `report`.
FindTreatMissingVal ==
    /\ pc = "clean" /\ err = "none"
    /\ LET res == find_treat_missing_val(variant, df, ds)
       IN  /\ df' = res.df
           /\ clean' = res.df
           /\ reportOf' = [reportOf EXCEPT ![ds] = <<res.report>>]
           /\ IF variant = "old"
              THEN report' = <<res.report>> /\ UNCHANGED dq_reports
              ELSE dq_reports' = Append(dq_reports, res.report)
                   /\ UNCHANGED report
    /\ pc' = "transform"
    /\ UNCHANGED <<variant, prior, files, ds, err, raw, store, commits,
                   reportFile, reportWrites>>

\* the dataset's own transforms, up to the upload call
Transform ==
    /\ pc = "transform" /\ err = "none"
    /\ IF ds = "customers" /\ \E i \in 1..Len(df) :
                                  df[i].phone # NA /\ ~PhoneParses(df[i].phone)
       THEN Raise("NumberParseException")
       ELSE /\ df' = CASE ds = "customers" -> StandardizeCustomers(variant, df)
                       [] ds = "products"  -> StandardizeProducts(df)
                       [] ds = "sales"     -> ReshapeSales(variant, df)
            /\ pc' = IF ds = "sales" THEN "load_orders" ELSE "load"
            /\ UNCHANGED <<variant, prior, files, ds, err, raw, clean, report,
                           reportOf, dq_reports, store, commits, reportFile,
                           reportWrites>>

\* the statement after a committed upload
AfterLoad(v, d, p) ==
    IF p = "load_orders" THEN [ds |-> d, pc |-> "load_items"]
    ELSE IF v = "old" THEN [ds |-> d, pc |-> "append"]
    ELSE IF d = "sales" THEN [ds |-> d, pc |-> "report"]
    ELSE [ds |-> Order[Pos(d) + 1], pc |-> "read"]

\* upload_data_db: connect, executemany, commit, close.  Nothing is committed
\* when connect or executemany raises.
UploadDataDb ==
    /\ pc \in {"load", "load_orders", "load_items"} /\ err = "none"
    /\ LET tb    == LoadTarget(ds, pc)
           batch == Batch(tb, df)
       IN  \/ Raise("DatabaseError")
           \/ /\ variant = "new"
              /\ KeyConflict(tb, store[tb], batch)
              /\ Raise("IntegrityError")
           \/ /\ variant = "old" \/ ~KeyConflict(tb, store[tb], batch)
              /\ store' = [store EXCEPT ![tb] = Loaded(variant, tb, @, batch)]
              /\ commits' = Append(commits, tb)
              /\ ds' = AfterLoad(variant, ds, pc).ds
              /\ pc' = AfterLoad(variant, ds, pc).pc
              /\ UNCHANGED <<variant, prior, files, err, raw, clean, df,
                             report, reportOf, dq_reports, reportFile,
                             reportWrites>>

\* Faulty variant of AppendReport: the report file is rewritten after every append.
AppendReport_Flush ==
    /\ pc = "append" /\ err = "none"
    /\ dq_reports' = Append(dq_reports, report[1])
    /\ reportFile' = ReportBlocks(variant, dq_reports')
    /\ reportWrites' = reportWrites + 1
    /\ IF ds = "sales"
       THEN pc' = "report" /\ UNCHANGED ds
       ELSE pc' = "read" /\ ds' = Order[Pos(ds) + 1]
    /\ UNCHANGED <<variant, prior, files, err, raw, clean, df, report,
                   reportOf, store, commits>>

\* main(): dq_reports.append(report), then the next dataset or the report
AppendReport ==
    /\ pc = "append" /\ err = "none"
    /\ dq_reports' = Append(dq_reports, report[1])
    /\ IF ds = "sales"
       THEN pc' = "report" /\ UNCHANGED ds
       ELSE pc' = "read" /\ ds' = Order[Pos(ds) + 1]
    /\ UNCHANGED <<variant, prior, files, err, raw, clean, df, report,
                   reportOf, store, commits, reportFile, reportWrites>>

\* generate_data_quality_report_txt: open(path, "w") and one block per report
GenerateReport ==
    /\ pc = "report" /\ err = "none"
    /\ reportFile' = ReportBlocks(variant, dq_reports)
    /\ reportWrites' = reportWrites + 1
    /\ pc' = "done"
    /\ UNCHANGED <<variant, prior, files, ds, err, raw, clean, df, report,
                   reportOf, dq_reports, store, commits>>

Next ==
    \/ ReadRawData
    \/ FindTreatMissingVal
    \/ Transform
    \/ UploadDataDb
    \/ AppendReport
    \/ GenerateReport

Spec == Init /\ [][Next]_vars

-----------------------------------------------------------------------------
(* Properties *)

LoadPcs == {"load", "load_orders", "load_items"}

\* find_treat_missing_val has returned for the current dataset, so raw, clean
\* and reportOf[ds] belong together
Cleaned == reportOf[ds] # <<>>

\* C1: the table returned by find_treat_missing_val never holds two rows that
\* are equal in all columns.
C1_NoDuplicateRows ==
    \A i, j \in 1..Len(clean) : i < j => clean[i] # clean[j]

\* C2: the report counts the rows read, the rows of the unmodified input that
\* repeat an earlier row, and the rows returned; returned = read - repeated.
C2_ReportCounts ==
    Cleaned =>
        LET r == reportOf[ds][1]
        IN  /\ r.RecordCount = Len(raw)
            /\ r.DuplicateRows =
                  Cardinality({i \in 1..Len(raw) :
                                  \E j \in 1..(i-1) : raw[j] = raw[i]})
            /\ r.InsertCount = Len(clean)
            /\ r.InsertCount = r.RecordCount - r.DuplicateRows

IdCol(tb) ==
    CASE tb = "customers" -> "customer_id"
      [] tb = "products"  -> "product_id"
      [] tb = "orders"    -> "order_id"

\* C3: in the customers, products and orders tables handed to the loader the
\* canonical identifier column has no repeated value.
C3_UniqueIdentifiers ==
    (pc \in {"load", "load_orders"}) =>
        LET tb == LoadTarget(ds, pc)
            b  == Batch(tb, df)
        IN  \A i, j \in 1..Len(b) : i < j => b[i][IdCol(tb)] # b[j][IdCol(tb)]

\* C4: the returned table is the de-duplicated input, forward filled: a
\* non-missing cell is unchanged, a missing cell takes the nearest non-missing
\* value above it in its column, and stays missing when there is none.
C4_ForwardFill ==
    Cleaned =>
        LET D == DropDuplicates(raw)
        IN  /\ Len(clean) = Len(D)
            /\ \A i \in 1..Len(D) : \A c \in Range(Cols(ds)) :
                 LET above == {j \in 1..(i-1) : ~IsNa(c, D[j][c])}
                 IN  IF ~IsNa(c, D[i][c]) THEN clean[i][c] = D[i][c]
                     ELSE IF above = {} THEN IsNa(c, clean[i][c])
                     ELSE clean[i][c] =
                            D[CHOOSE j \in above : \A k \in above : k <= j][c]

\* a present value no date parser accepts
Unparseable(v) == v # NA /\ ParseDate(v, TRUE) = NA /\ ParseDate(v, FALSE) = NA

CanonicalDate(v) ==
    /\ Len(v) = 5 /\ v[2] = "-" /\ v[4] = "-"
    /\ v[1] \in YearTok /\ v[3] \in MonthTok /\ v[5] \in DayTok

\* the count the null summary shows for column c (0 when it has no entry)
SummaryCount(summary, c) ==
    IF \E k \in 1..Len(summary.entries) : summary.entries[k][1] = c
    THEN summary.entries[CHOOSE k \in 1..Len(summary.entries) :
                            summary.entries[k][1] = c][2]
    ELSE 0

SummaryOf(r) == IF variant = "old" THEN r.NullSummary ELSE r.NullCount

\* C5 (first half): an unparseable date never ends the run and is missing in
\* the table handed to the loader.
C5_InvalidDateBecomesMissing ==
    /\ err \in {"none", "FileNotFoundError", "ParserError",
                "NumberParseException", "DatabaseError", "IntegrityError"}
    /\ (pc \in LoadPcs) =>
          \A i \in 1..Len(df) : \A c \in DOMAIN df[i] \cap DateNamed :
              df[i][c] = NA \/ CanonicalDate(df[i][c])

\* C5: an unparseable date is missing in the loaded table and is counted in
\* the null summary of its dataset's report, in its column's entry.
C5_InvalidDateCounted ==
    /\ C5_InvalidDateBecomesMissing
    /\ (Cleaned /\ pc \in LoadPcs) =>
          \A c \in Range(DateCols(Cols(ds))) :
              SummaryCount(SummaryOf(reportOf[ds][1]), c) =
                  NaCount(raw, c)
                  + Cardinality({i \in 1..Len(raw) : Unparseable(raw[i][c])})

\* the effect the claim gives a committed call: one row per incoming key,
\* holding the last incoming values; every other row as before
ConflictReplaced(tb, before, after, batch) ==
    /\ \A i \in 1..Len(batch) :
          LET same == {j \in 1..Len(batch) :
                          KeyOf(tb, batch[j]) = KeyOf(tb, batch[i])}
              last == CHOOSE j \in same : \A k \in same : k <= j
          IN  {x \in after : KeyOf(tb, x) = KeyOf(tb, batch[i])} = {batch[last]}
    /\ \A x \in before :
          (\A i \in 1..Len(batch) : KeyOf(tb, batch[i]) # KeyOf(tb, x))
              => x \in after
    /\ \A x \in after : x \in before \/ x \in Range(batch)

\* C6: upload_data_db replaces on conflict: a key conflict never makes the
\* call fail, and a committed call leaves exactly the incoming row under each
\* incoming key and every other row unchanged.
C6_ConflictReplace ==
    [][ (pc \in LoadPcs /\ err = "none") =>
           /\ err' # "IntegrityError"
           /\ (commits' # commits) =>
                 ConflictReplaced(LoadTarget(ds, pc), store[LoadTarget(ds, pc)],
                                  store'[LoadTarget(ds, pc)],
                                  Batch(LoadTarget(ds, pc), df)) ]_vars

TablesOfDataset(d) ==
    CASE d = "customers" -> {"customers"}
      [] d = "products"  -> {"products"}
      [] d = "sales"     -> {"orders", "order_items"}

\* C7 as stated: when a file is absent at the start, the run ends with
\* file-not-found and nothing has been cleaned or committed.
C7_AbortBeforeAnyProcessing ==
    (\E d \in Datasets : ~files[d]) =>
        /\ err \in {"none", "FileNotFoundError"}
        /\ \A d \in Datasets : reportOf[d] = <<>>
        /\ commits = <<>>
        /\ store = InitStore(prior)

\* C7 amended: the run never gets past the read of an absent file, where it
\* ends with file-not-found; that dataset and the later ones are then neither
\* cleaned nor loaded, the earlier ones are cleaned and committed.
C7_AbortAtMissingFile ==
    /\ ~files[ds] => pc = "read" /\ err \in {"none", "FileNotFoundError"}
    /\ err = "FileNotFoundError" =>
          /\ ~files[ds]
          /\ \A d \in Datasets :
                IF Pos(d) < Pos(ds)
                THEN /\ files[d]
                     /\ reportOf[d] # <<>>
                     /\ TablesOfDataset(d) \subseteq Range(commits)
                ELSE /\ reportOf[d] = <<>>
                     /\ \A tb \in TablesOfDataset(d) :
                           /\ tb \notin Range(commits)
                           /\ store[tb] = InitStore(prior)[tb]

C7_Witness ==
    /\ err = "FileNotFoundError"
    /\ ds = "sales"
    /\ commits = <<"customers", "products">>
    /\ store # InitStore(prior)

\* C8: the report file is written at most once, only after the four loads
\* have committed; a run that ends with an error leaves the file as it was; a
\* run that completes leaves the three blocks of Customers, Products, Sales.
C8_ReportOnlyAfterAllLoads ==
    /\ reportWrites <= 1
    /\ reportWrites = 1 =>
          commits = <<"customers", "products", "orders", "order_items">>
    /\ reportWrites = 0 => reportFile = InitReportFile(prior)
    /\ err # "none" => reportWrites = 0
    /\ pc = "done" =>
          /\ reportWrites = 1
          /\ Len(reportFile) = 3
          /\ \A i \in 1..3 :
                LET r == reportOf[Order[i]][1]
                IN  /\ reportFile[i].Dataset = i
                    /\ reportFile[i].Processed = r.RecordCount
                    /\ reportFile[i].Removed = r.DuplicateRows
                    /\ reportFile[i].Handled = SummaryOf(r)
                    /\ reportFile[i].Loaded = r.InsertCount

C8_Witness ==
    /\ err = "DatabaseError"
    /\ pc = "load_items"
    /\ Len(dq_reports) >= 2
    /\ reportFile = StaleReport

\* C9: orders is committed by its own call before order_items: when the
\* order_items call is reached (and when it fails) the orders rows of this run
\* are in the store and no order_items row of this run is; they stay; the
\* order_items commit never comes first.
C9_OrdersCommitFirst ==
    /\ \A i \in 1..Len(commits) :
          commits[i] = "order_items" => \E j \in 1..(i-1) : commits[j] = "orders"
    /\ store.order_items # InitStore(prior).order_items =>
          "orders" \in Range(commits)
    /\ pc = "load_items" =>
          /\ commits = <<"customers", "products", "orders">>
          /\ store.order_items = InitStore(prior).order_items
    /\ (ds = "sales" /\ pc \in {"load_items", "append", "report", "done"}) =>
          \A i \in 1..Len(df) :
              \E x \in store.orders :
                  /\ x.order_id = df[i].order_id
                  /\ x \in Range(OrdersDf(df))

C9_Witness ==
    /\ pc = "load_items"
    /\ err = "DatabaseError"
    /\ store.orders # InitStore(prior).orders
    /\ store.order_items = InitStore(prior).order_items

\* no text cell of the row is 'Unknown'
NoUnknownCell(r) == \A c \in DOMAIN r : c \in NumericCols \/ r[c] # UNKNOWN

\* C10: the orders and order_items rows are the cleaned sales rows without
\* 'Unknown', one of each per row, in order, with the same digit-only
\* order_id and total_amount = quantity * unit_price; the report's Insert
\* Count exceeds the rows loaded by the rows dropped.
C10_SalesProjection ==
    (ds = "sales" /\ pc \in {"load_orders", "load_items"}) =>
        LET S == SelectSeq(clean, NoUnknownCell)
            O == Batch("orders", df)
            I == Batch("order_items", df)
        IN  /\ Len(O) = Len(S) /\ Len(I) = Len(S)
            /\ \A i \in 1..Len(S) :
                  /\ O[i].order_id = I[i].order_id
                  /\ \A k \in 1..Len(O[i].order_id) : O[i].order_id[k] \in Digits
                  /\ O[i].order_id =
                        SelectSeq(S[i].transaction_id, LAMBDA ch : ch \in Digits)
                  /\ O[i].status = S[i].status
                  /\ I[i].quantity = S[i].quantity
                  /\ I[i].unit_price = S[i].unit_price
                  /\ O[i].total_amount =
                        (IF S[i].quantity = NaN \/ S[i].unit_price = NaN
                         THEN NaN ELSE S[i].quantity * S[i].unit_price)
                  /\ NoUnknownCell(O[i]) /\ NoUnknownCell(I[i])
            /\ reportOf["sales"][1].InsertCount - Len(O) =
                  Cardinality({i \in 1..Len(clean) : ~NoUnknownCell(clean[i])})

C10_Witness ==
    /\ ds = "sales"
    /\ pc = "load_orders"
    /\ Len(clean) = 2
    /\ Len(df) = 1
    /\ df[1].total_amount = 8

====
